---- MODULE Spec2Model ----
(***************************************************************************)
(* Media storage and derivation subsystem of the golf coaching backend.    *)
(*                                                                         *)
(*   ThumbnailService (app/services/thumbnail.py): generate_thumbnail,     *)
(*     _extract_thumbnail_with_ffmpeg, _create_default_thumbnail.          *)
(*   LocalStorage / AzureBlobStorage / StorageService                      *)
(*     (app/services/storage.py): upload_file, upload_file_with_exact_name,*)
(*     delete_file, get_file_url.                                          *)
(*                                                                         *)
(*   Process start and the worker pool of AzureBlobStorage                 *)
(*     (app/services/storage.py).                                          *)
(*                                                                         *)
(*   upload_video, capture_video_frame, proxy_file, get_media_url,         *)
(*     get_media_url_simple (app/routers/upload.py); get_media_url and     *)
(*     proxy_file of app/main.py.                                          *)
(*                                                                         *)
(*   delete_video (app/routers/upload.py); create_section_group,           *)
(*     add_swing_section, update_swing_section, delete_swing_section       *)
(*     (app/routers/coach.py) with their queries of app/crud.py.           *)
(*                                                                         *)
(* Several specifications share the module: ThumbnailSpec drives the       *)
(* thumbnail service, StorageSpec the storage service, PoolSpec the        *)
(* construction of the storage service and its worker pool, UploadSpec     *)
(* the upload_video handler on the event loop, ProxySpec the signed-URL    *)
(* and proxy endpoints, DeleteSpec the delete_video and                    *)
(* delete_swing_section handlers, CoachSpec the section handlers of        *)
(* app/routers/coach.py.  The variables of the components a specification  *)
(* does not drive stay at their initial values.                            *)
(***************************************************************************)
EXTENDS Integers, Sequences, FiniteSets, TLC

VARIABLES
    \* ---- ThumbnailService -------------------------------------------------
    tpc,                 \* position inside generate_thumbnail
    calls,               \* number of generate_thumbnail calls started
    video_filename,      \* suffix of the video_filename argument
    video,               \* the bytes of the video_file argument (abstracted)
    temp_video_path,     \* local variable temp_video_path (NoPath = None)
    temp_thumbnail_path, \* local variable temp_thumbnail_path (NoPath = None)
    success,             \* local variable success
    xpc,                 \* position inside _extract_thumbnail_with_ffmpeg
    proc,                \* the subprocess the call is blocked on, or NoProc
    exc,                 \* exception propagating out of the inner try block
    result,              \* value returned by the call (NoImage before return)
    escaped,             \* TRUE iff an exception left generate_thumbnail
    tmp,                 \* files in tempfile.gettempdir(): path -> content
    leaked,              \* paths whose last unlink raised (logged, swallowed)
    attempts,            \* extraction attempts of the current call, in order
    procs,               \* timeouts of the subprocesses started by the call
    synth,               \* where _create_default_thumbnail was called from
    aborted,             \* the enclosing request was aborted during the call
    \* ---- StorageService ---------------------------------------------------
    storage_type,        \* os.getenv("STORAGE_TYPE"): which backend was built
    clock,               \* wall clock, in ticks of 1/TicksPerSecond second
    localFiles,          \* files under LocalStorage.storage_path: key -> data
    blobs,               \* blobs of the Azure container: blob name -> data
    issued,              \* the URLs the upload methods have returned
    last,                \* the last storage call: arguments and outcome
    urlWhileStored,      \* get_file_url results seen while the key was stored
    \* ---- process start, AzureBlobStorage.executor -------------------------
    connection_string,   \* os.getenv("AZURE_STORAGE_CONNECTION_STRING")
    service,             \* the module-level storage_service (line 223)
    blob_service_client, \* AzureBlobStorage.blob_service_client exists
    executor,            \* AzureBlobStorage.executor: its queue and workers
    ops,                 \* storage calls made by requests, in arrival order
    constructions,       \* how often a backend constructor has run
    \* ---- the event loop and the upload_video handler ----------------------
    loop,                \* the request whose blocking call holds the event
                         \* loop thread (0: the loop is free to run any task)
    reqs,                \* the upload_video requests: position and locals
    videos,              \* rows of the videos table: the created records
    \* ---- signed URLs and the proxy endpoints ------------------------------
    now,                 \* datetime.utcnow(), in minutes
    grants,              \* the SAS tokens generated so far, in order
    lastp,               \* the last request to a signed-URL or proxy endpoint
    \* ---- the database and the delete and coach handlers ------------------
    section_groups,      \* rows of the section_groups table, in creation order
    swing_sections,      \* rows of the swing_sections table, by section_id
    dels,                \* the delete_video / delete_swing_section requests
    coach                \* the requests to the coach router's handlers

thumbVars == <<tpc, calls, video_filename, video, temp_video_path,
               temp_thumbnail_path, success, xpc, proc, exc, result, escaped,
               tmp, leaked, attempts, procs, synth, aborted>>

storageVars == <<storage_type, clock, localFiles, blobs, issued, last,
                 urlWhileStored>>

poolVars == <<connection_string, service, blob_service_client, executor, ops,
              constructions>>

httpVars == <<loop, reqs, videos>>

proxyVars == <<now, grants, lastp>>

dbVars == <<section_groups, swing_sections, dels, coach>>

webVars == <<poolVars, httpVars, proxyVars, dbVars>>

vars == <<thumbVars, storageVars, webVars>>

-----------------------------------------------------------------------------
(* Bounds of the model.                                                    *)

MaxCalls == 2

\* the clock: ticks per second and the last tick
TicksPerSecond == 2

MaxClock == 2

\* contents of the uploaded streams
Payloads == {"p1", "p2"}

\* (width, height) of the uploaded videos' frames
VideoSizes == {<<1920, 1080>>, <<320, 240>>, <<270, 480>>}

\* Path(video_filename).suffix.lower() of the uploaded files
Suffixes == {".mp4", ".mov"}

-----------------------------------------------------------------------------
(* Program constants.                                                      *)

ProbeTimeout   == 5      \* subprocess.run(["ffmpeg", "-version"], timeout=5)
ExtractTimeout == 30     \* subprocess.run(cmd, timeout=30)
ScaleMaxW      == 480    \* scale='min(480,iw)'
ScaleMaxH      == 270    \* scale=...:'min(270,ih)'
PadW           == 480    \* pad=480:270
PadH           == 270
DefaultW       == 480    \* Image.new('RGB', (480, 270))
DefaultH       == 270
MinimalW       == 1      \* SOF0 of the literal: ...\x00\x01\x00\x01... (1x1)
MinimalH       == 1

\* timestamp arguments of the three calls, in program order (None = no -ss)
Strategies == <<"00:00:02", "00:00:00", "None">>

-----------------------------------------------------------------------------
(* Values.                                                                 *)

NoPath  == [stem |-> "None", ext |-> ""]
NoProc  == [kind |-> "none", timeout |-> 0, hung |-> FALSE]
NoImage == [fmt |-> "none", w |-> 0, h |-> 0, origin |-> "none", call |-> 0]
NoVideo == [w |-> 0, h |-> 0]

\* self.temp_dir / f"temp_video_{os.getpid()}{video_extension}": the pid is
\* the same for every call of the process, so the suffix alone tells paths
\* apart.
TempVideoPath(video_extension) == [stem |-> "temp_video", ext |-> video_extension]

\* self.temp_dir / f"temp_thumbnail_{os.getpid()}.jpg"
TempThumbnailPath == [stem |-> "temp_thumbnail", ext |-> ".jpg"]

Min(a, b) == IF a < b THEN a ELSE b

\* scale='min(480,iw)':'min(270,ih)':force_original_aspect_ratio=decrease
\* the box min(480,iw) x min(270,ih) is shrunk on one side to the video's
\* aspect ratio.
ScaleFilter(iw, ih) ==
    LET bw == Min(ScaleMaxW, iw)
        bh == Min(ScaleMaxH, ih)
    IN  IF bw * ih > bh * iw
        THEN <<(bh * iw) \div ih, bh>>
        ELSE <<bw, (bw * ih) \div iw>>

\* pad=480:270:(ow-iw)/2:(oh-ih)/2:color=black ; the filter fails (<<0, 0>>)
\* when its input is larger than the padded size or empty.
PadFilterUnpadded(wh) == wh

PadFilter(wh) ==
    IF wh[1] > 0 /\ wh[2] > 0 /\ wh[1] <= PadW /\ wh[2] <= PadH
    THEN <<PadW, PadH>>
    ELSE <<0, 0>>

\* The frame "-vcodec mjpeg -vframes 1 -vf scale...,pad..." writes for a
\* staged file; content of a temp file: [kind, call, w, h].
FrameOf(staged) ==
    LET wh == PadFilter(ScaleFilter(staged.w, staged.h))
    IN  [kind |-> "frame", call |-> staged.call, w |-> wh[1], h |-> wh[2]]

\* thumb_file.read() wrapped in BytesIO: the bytes of the file as they are.
ReadImage(content) ==
    [fmt    |-> IF content.kind = "frame" THEN "jpeg" ELSE "raw",
     w      |-> content.w,
     h      |-> content.h,
     origin |-> content.kind,
     call   |-> content.call]

\* _create_default_thumbnail: the drawn 480x270 placeholder, or, when PIL
\* raises, the literal 1x1 JPEG of the except branch.  Never raises.
CreateDefaultThumbnailNoFallback(pilOk) ==
    IF pilOk
    THEN [fmt |-> "jpeg", w |-> DefaultW, h |-> DefaultH,
          origin |-> "placeholder", call |-> 0]
    ELSE NoImage

CreateDefaultThumbnail(pilOk) ==
    IF pilOk
    THEN [fmt |-> "jpeg", w |-> DefaultW, h |-> DefaultH,
          origin |-> "placeholder", call |-> 0]
    ELSE [fmt |-> "jpeg", w |-> MinimalW, h |-> MinimalH,
          origin |-> "minimal", call |-> 0]

\* "if not success or not temp_thumbnail_path.exists()" (lines 58, 67, 76)
NeedsRetryAlways(ok, exists) == TRUE

NeedsRetry(ok, exists) == ~ok \/ ~exists

\* timeout= of the two subprocess.run calls of one attempt
TimeoutOfUnbounded(kind) == IF kind = "probe" THEN ProbeTimeout ELSE 0

TimeoutOfSlowProbe(kind) == ExtractTimeout

TimeoutOf(kind) == IF kind = "probe" THEN ProbeTimeout ELSE ExtractTimeout

Exists(path) == path \in DOMAIN tmp

WriteFile(files, path, content) ==
    [p \in DOMAIN files \cup {path} |-> IF p = path THEN content ELSE files[p]]

RemoveFile(files, path) == [p \in DOMAIN files \ {path} |-> files[p]]

\* the three call sites of _extract_thumbnail_with_ffmpeg and the line each
\* returns to
CallSites == {"L51", "L60", "L69"}

StrategyAt(line) ==
    CASE line = "L51" -> Strategies[1]
      [] line = "L60" -> Strategies[2]
      [] line = "L69" -> Strategies[3]

ReturnTo(line) ==
    CASE line = "L51" -> "L58"
      [] line = "L60" -> "L67"
      [] line = "L69" -> "L76"

\* "except Exception" (line 100): every exception the model raises is an
\* OSError, a subclass of Exception.
ExceptException(e) == e \in {"OSError"}

RECURSIVE SumSeq(_)
SumSeq(s) == IF s = <<>> THEN 0 ELSE Head(s) + SumSeq(Tail(s))

InCall == tpc \notin {"idle", "done"}

-----------------------------------------------------------------------------
(* LocalStorage, AzureBlobStorage, StorageService                          *)

\* A file or blob name is one path segment "<stem><ext>"; an object key is a
\* sequence of segments (joined by "/").  The stem of a name generated by
\* upload_file is its timestamp (followed by the literal "_U99999"); other
\* stems are caller-chosen names.
Name(stem, ext) == [stem |-> stem, ext |-> ext]

\* Path(filename).suffix
Suffix(filename) == filename.ext

\* datetime.now(jst).strftime("%Y%m%d%H%M%S"): the wall clock cut to whole
\* seconds
Timestamp(t) == t \div TicksPerSecond

\* unique_filename = f"{timestamp}_U99999{file_extension}"
UniqueFilename(t, file_extension) == <<Name(Timestamp(t), file_extension)>>

\* filenames passed to upload_file: different names with the same suffix
UploadNames == {Name(500, ".mp4"), Name(501, ".mp4")}

\* keys upload_file can derive within the clock's range
UniqueKeys ==
    {UniqueFilename(t, Suffix(f)) : t \in 0..MaxClock, f \in UploadNames}

\* caller-supplied exact names: the thumbnail name of a video uploaded in
\* second 0, a plain name, and the same name below a directory
ExactKeys ==
    {<<Name(0, ".jpg")>>, <<Name(900, ".jpg")>>,
     <<Name(901, ""), Name(900, ".jpg")>>}

\* names get_file_url is asked for
LookupKeys == {<<Name(900, ".jpg")>>, <<Name(901, ""), Name(900, ".jpg")>>}

\* f"{self.base_url}/{name}" and blob_client.url (no token: account-key
\* connection string)
NoUrl == [root |-> "", key |-> <<>>]

LocalUrl(key) == [root |-> "/uploads", key |-> key]

BlobUrl(key) ==
    [root |-> "https://account.blob.core.windows.net/bbc-test", key |-> key]

\* file_url.split("/")[-1]
LastSegment(file_url) == <<file_url.key[Len(file_url.key)]>>

Put(store, key, data) ==
    [k \in DOMAIN store \cup {key} |-> IF k = key THEN data ELSE store[k]]

Drop(store, key) == [k \in DOMAIN store \ {key} |-> store[k]]

\* open(file_path, "wb") raises FileNotFoundError unless the parent directory
\* exists; LocalStorage creates storage_path itself and no directory below it.
ParentExists(key) == Len(key) = 1

\* with open(file_path, "wb") as buffer: shutil.copyfileobj(file, buffer)
LocalWriteAppend(files, key, payload) ==
    IF ParentExists(key)
    THEN [raised |-> FALSE,
          store  |-> Put(files, key,
                         IF key \in DOMAIN files THEN files[key] \o <<payload>>
                                                 ELSE <<payload>>)]
    ELSE [raised |-> TRUE, store |-> files]

LocalWrite(files, key, payload) ==
    IF ParentExists(key)
    THEN [raised |-> FALSE, store |-> Put(files, key, <<payload>>)]
    ELSE [raised |-> TRUE, store |-> files]

\* blob_client.upload_blob(file, content_type=..., overwrite=True)
UploadBlob(container, blob, payload) ==
    [raised |-> FALSE, store |-> Put(container, blob, <<payload>>)]

\* blob_client.delete_blob(): ResourceNotFoundError when the blob is absent
DeleteBlob(container, blob) ==
    IF blob \in DOMAIN container
    THEN [raised |-> FALSE, store |-> Drop(container, blob)]
    ELSE [raised |-> TRUE, store |-> container]

\* The backend's objects, and what one call does to them.
Objects == IF storage_type = "local" THEN localFiles ELSE blobs

UrlOf(key) == IF storage_type = "local" THEN LocalUrl(key) ELSE BlobUrl(key)

SetObjects(store) ==
    IF storage_type = "local"
    THEN localFiles' = store /\ UNCHANGED blobs
    ELSE blobs' = store /\ UNCHANGED localFiles

NoCall ==
    [op |-> "none", key |-> <<>>, url |-> NoUrl, payload |-> "",
     raised |-> FALSE, ret |-> FALSE, before |-> <<>>, known |-> FALSE]

StorageVarsInit ==
    /\ storage_type \in {"local", "azure_blob"}
    /\ clock = 0
    /\ localFiles = <<>>
    /\ blobs = <<>>
    /\ issued = {}
    /\ last = NoCall
    /\ urlWhileStored = <<>>

\* upload_file of either backend: the key is derived from the clock and the
\* suffix of the filename; the object is written (overwriting) and its URL
\* returned.
UploadFile ==
    /\ \E filename \in UploadNames, payload \in Payloads :
          LET unique_filename == UniqueFilename(clock, Suffix(filename))
              w == IF storage_type = "local"
                   THEN LocalWrite(localFiles, unique_filename, payload)
                   ELSE UploadBlob(blobs, unique_filename, payload)
          IN  /\ SetObjects(w.store)
              /\ issued' = IF w.raised THEN issued
                           ELSE issued \cup {UrlOf(unique_filename)}
              /\ last' = [op |-> "upload_file", key |-> unique_filename,
                          url |-> IF w.raised THEN NoUrl ELSE UrlOf(unique_filename),
                          payload |-> payload, raised |-> w.raised,
                          ret |-> ~w.raised,
                          before |-> IF unique_filename \in DOMAIN Objects
                                     THEN Objects[unique_filename] ELSE <<>>,
                          known |-> UrlOf(unique_filename) \in issued]
    /\ UNCHANGED <<storage_type, clock, urlWhileStored>>
    /\ UNCHANGED <<thumbVars, webVars>>

\* upload_file_with_exact_name of either backend: the caller's name is the
\* key, verbatim.
UploadFileWithExactName ==
    /\ \E exact_filename \in ExactKeys, payload \in Payloads :
          LET w == IF storage_type = "local"
                   THEN LocalWrite(localFiles, exact_filename, payload)
                   ELSE UploadBlob(blobs, exact_filename, payload)
          IN  /\ SetObjects(w.store)
              /\ last' = [op |-> "upload_file_with_exact_name",
                          key |-> exact_filename,
                          url |-> IF w.raised THEN NoUrl ELSE UrlOf(exact_filename),
                          payload |-> payload, raised |-> w.raised,
                          ret |-> ~w.raised,
                          before |-> IF exact_filename \in DOMAIN Objects
                                     THEN Objects[exact_filename] ELSE <<>>,
                          known |-> UrlOf(exact_filename) \in issued]
              /\ issued' = IF w.raised THEN issued
                           ELSE issued \cup {UrlOf(exact_filename)}
    /\ UNCHANGED <<storage_type, clock, urlWhileStored>>
    /\ UNCHANGED <<thumbVars, webVars>>

\* LocalStorage.delete_file: unlink storage_path / <last segment> if it
\* exists.
LocalDeleteFile(files, file_url) ==
    LET filename == LastSegment(file_url)
    IN  IF filename \in DOMAIN files
        THEN [ret |-> TRUE, raised |-> FALSE, store |-> Drop(files, filename)]
        ELSE [ret |-> FALSE, raised |-> FALSE, store |-> files]

\* AzureBlobStorage.delete_file: delete_blob of <last segment>; any
\* exception is answered with False.
AzureDeleteFile(container, file_url) ==
    LET blob_name == LastSegment(file_url)
        d == DeleteBlob(container, blob_name)
    IN  IF d.raised
        THEN [ret |-> FALSE, raised |-> FALSE, store |-> container]
        ELSE [ret |-> TRUE, raised |-> FALSE, store |-> d.store]

\* delete_file(file_url) for the URL of any key the service can hold
DeleteFile ==
    /\ \E key \in ExactKeys \cup UniqueKeys :
          LET file_url == UrlOf(key)
              d == IF storage_type = "local"
                   THEN LocalDeleteFile(localFiles, file_url)
                   ELSE AzureDeleteFile(blobs, file_url)
          IN  /\ SetObjects(d.store)
              /\ last' = [op |-> "delete_file", key |-> key, url |-> file_url,
                          payload |-> "", raised |-> d.raised, ret |-> d.ret,
                          before |-> IF key \in DOMAIN Objects
                                     THEN Objects[key] ELSE <<>>,
                          known |-> file_url \in issued]
    /\ UNCHANGED <<storage_type, clock, issued, urlWhileStored>>
    /\ UNCHANGED <<thumbVars, webVars>>

\* get_file_url: the URL is formatted from the name alone.
LocalGetFileUrlIfStored(filename) ==
    IF filename \in DOMAIN localFiles THEN LocalUrl(filename) ELSE NoUrl

LocalGetFileUrl(filename) == LocalUrl(filename)

AzureGetFileUrl(filename) == BlobUrl(filename)

GetFileUrl ==
    /\ \E filename \in LookupKeys :
          LET u == IF storage_type = "local"
                   THEN LocalGetFileUrl(filename)
                   ELSE AzureGetFileUrl(filename)
              stored == filename \in DOMAIN Objects
          IN  /\ last' = [op |-> "get_file_url", key |-> filename, url |-> u,
                          payload |-> "", raised |-> FALSE, ret |-> stored,
                          before |-> IF stored THEN Objects[filename] ELSE <<>>,
                          known |-> u \in issued]
              /\ urlWhileStored' = IF stored
                                   THEN Put(urlWhileStored, filename, u)
                                   ELSE urlWhileStored
    /\ UNCHANGED <<storage_type, clock, localFiles, blobs, issued>>
    /\ UNCHANGED <<thumbVars, webVars>>

\* time passes
Tick ==
    /\ clock < MaxClock
    /\ clock' = clock + 1
    /\ UNCHANGED <<storage_type, localFiles, blobs, issued, last, urlWhileStored>>
    /\ UNCHANGED <<thumbVars, webVars>>

StorageNext ==
    \/ UploadFile
    \/ UploadFileWithExactName
    \/ DeleteFile
    \/ GetFileUrl
    \/ Tick

-----------------------------------------------------------------------------
(* Process start: storage_service = StorageService() and the constructor   *)
(* of AzureBlobStorage                                                     *)

\* ThreadPoolExecutor(max_workers=4)
MaxWorkers == 4

NoExecutor == [max_workers |-> 0, queue |-> <<>>, running |-> {}]

ThreadPoolExecutor(max_workers) ==
    [max_workers |-> max_workers, queue |-> <<>>, running |-> {}]

\* AzureBlobStorage.__init__: raises ValueError before the client and the
\* executor are created when the connection string is missing.
AzureBlobStorageInitLenient(conn) ==
    [raised |-> FALSE, client |-> conn # "none",
     executor |-> ThreadPoolExecutor(MaxWorkers)]

AzureBlobStorageInit(conn) ==
    IF conn = "none"
    THEN [raised |-> TRUE, client |-> FALSE, executor |-> NoExecutor]
    ELSE [raised |-> FALSE, client |-> TRUE,
          executor |-> ThreadPoolExecutor(MaxWorkers)]

\* StorageService.__init__: the backend is chosen from STORAGE_TYPE; an
\* exception of the backend's constructor leaves the module import.
StorageServiceInit(type, conn) ==
    IF type = "azure_blob"
    THEN LET b == AzureBlobStorageInit(conn)
         IN  [service  |-> IF b.raised THEN "failed" ELSE "AzureBlobStorage",
              client   |-> b.client,
              executor |-> b.executor]
    ELSE [service |-> "LocalStorage", client |-> FALSE,
          executor |-> NoExecutor]

\* the process after a successful start with the chosen backend
PoolVarsStarted ==
    /\ connection_string = IF storage_type = "azure_blob" THEN "set" ELSE "none"
    /\ service = StorageServiceInit(storage_type, connection_string).service
    /\ blob_service_client =
          StorageServiceInit(storage_type, connection_string).client
    /\ executor = StorageServiceInit(storage_type, connection_string).executor
    /\ ops = <<>>
    /\ constructions = 1

\* upload_video requests (routers/upload.py)
MaxUploads == 2

\* a request that has not arrived
NoRequest ==
    [pc |-> "new", content_type_ok |-> TRUE, user_id_ok |-> TRUE,
     video_key |-> <<>>, video_url |-> NoUrl, thumbnail_data |-> "none",
     thumbnail |-> "none", thumbnail_url |-> NoUrl, op |-> 0,
     status |-> 0, cause |-> "none"]

HttpVarsInit ==
    /\ loop = 0
    /\ reqs = [r \in 1..MaxUploads |-> NoRequest]
    /\ videos = {}

\* no request to a signed-URL or proxy endpoint yet
NoName == [key |-> <<>>, query |-> 0]

NoRef == [scheme |-> "", host |-> "", container |-> "", key |-> <<>>,
          query |-> 0]

\* no URL requested from the storage host
NoTarget == [host |-> "", path |-> <<>>]

NoProxyRequest ==
    [endpoint |-> "none", ref |-> NoRef, status |-> 0, issued |-> 0,
     name |-> NoName, tokens |-> <<>>, gets |-> 0, fetch_token |-> 0,
     fetch_at |-> 0, fault |-> "none", upstream |-> 0,
     target |-> NoTarget]

ProxyVarsInit ==
    /\ now = 0
    /\ grants = <<>>
    /\ lastp = NoProxyRequest

\* delete_video and delete_swing_section requests
MaxDeletes == 2

\* requests to create_section_group, add_swing_section, update_swing_section
MaxCoach == 3

\* a videos row as get_video returns it; None
NoVideoRecord == [video_url |-> NoUrl, thumbnail_url |-> NoUrl]

\* a delete request that has not arrived
NoDelete ==
    [pc |-> "new", handler |-> "none", video |-> NoVideoRecord,
     section_id |-> 0, urls |-> <<>>, outcomes |-> <<>>,
     db_called |-> FALSE, db_raised |-> FALSE, rowcount |-> 0, status |-> 0]

\* a coach request that has not arrived
NoCoach ==
    [pc |-> "new", handler |-> "none", status |-> 0, section_group_id |-> 0]

DbVarsInit ==
    /\ section_groups = <<>>
    /\ swing_sections = <<>>
    /\ dels = [d \in 1..MaxDeletes |-> NoDelete]
    /\ coach = [c \in 1..MaxCoach |-> NoCoach]

WebVarsStarted ==
    PoolVarsStarted /\ HttpVarsInit /\ ProxyVarsInit /\ DbVarsInit

-----------------------------------------------------------------------------
(* ThumbnailService.generate_thumbnail                                     *)

ThumbnailVarsInit ==
    /\ tpc = "idle"
    /\ calls = 0
    /\ video_filename = ""
    /\ video = NoVideo
    /\ temp_video_path = NoPath
    /\ temp_thumbnail_path = NoPath
    /\ success = FALSE
    /\ xpc = "none"
    /\ proc = NoProc
    /\ exc = "none"
    /\ result = NoImage
    /\ escaped = FALSE
    /\ tmp = <<>>
    /\ leaked = {}
    /\ attempts = <<>>
    /\ procs = <<>>
    /\ synth = {}
    /\ aborted = FALSE

\* STORAGE_TYPE defaults to "local"; the thumbnail service does not use the
\* storage service.
ThumbnailInit ==
    /\ ThumbnailVarsInit
    /\ StorageVarsInit
    /\ storage_type = "local"
    /\ WebVarsStarted

StorageInit == ThumbnailVarsInit /\ StorageVarsInit /\ WebVarsStarted

StorageSpec == StorageInit /\ [][StorageNext]_vars

\* A request handler awaits generate_thumbnail(video_file, video_filename).
\* The coroutine contains no suspension point (subprocess.run blocks the
\* event loop), so a call starts only when the previous one has returned.
GenerateThumbnail ==
    /\ tpc \in {"idle", "done"}
    /\ calls < MaxCalls
    /\ \E sfx \in Suffixes, wh \in VideoSizes :
          /\ video_filename' = sfx
          /\ video' = [w |-> wh[1], h |-> wh[2]]
    /\ calls' = calls + 1
    /\ tpc' = "stage"
    /\ temp_video_path' = NoPath
    /\ temp_thumbnail_path' = NoPath
    /\ success' = FALSE
    /\ xpc' = "none"
    /\ proc' = NoProc
    /\ exc' = "none"
    /\ result' = NoImage
    /\ escaped' = FALSE
    /\ attempts' = <<>>
    /\ procs' = <<>>
    /\ synth' = {}
    /\ aborted' = FALSE
    /\ UNCHANGED <<tmp, leaked>>
    /\ UNCHANGED <<storageVars, webVars>>

\* lines 36-48: stage the video bytes in temp_video_path.  open() may raise
\* (nothing written), the write may raise (file left truncated), or the file
\* is written and temp_thumbnail_path is set.
StageVideo ==
    /\ tpc = "stage"
    /\ temp_video_path' = TempVideoPath(video_filename)
    /\ \E outcome \in {"ok", "open_raises", "write_raises"} :
          \/ /\ outcome = "ok"
             /\ tmp' = WriteFile(tmp, TempVideoPath(video_filename),
                    [kind |-> "video", call |-> calls, w |-> video.w, h |-> video.h])
             /\ temp_thumbnail_path' = TempThumbnailPath
             /\ tpc' = "L51"
             /\ exc' = "none"
          \/ /\ outcome = "open_raises"
             /\ tmp' = tmp
             /\ temp_thumbnail_path' = NoPath
             /\ tpc' = "finally_video"
             /\ exc' = "OSError"
          \/ /\ outcome = "write_raises"
             /\ tmp' = WriteFile(tmp, TempVideoPath(video_filename),
                    [kind |-> "truncated", call |-> calls, w |-> 0, h |-> 0])
             /\ temp_thumbnail_path' = NoPath
             /\ tpc' = "finally_video"
             /\ exc' = "OSError"
    /\ UNCHANGED <<calls, video_filename, video, success, xpc, proc, result,
                   escaped, leaked, attempts, procs, synth, aborted>>
    /\ UNCHANGED <<storageVars, webVars>>

\* "if result.returncode == 0 and Path(thumbnail_path).exists()" (line 155)
AttemptSucceededOnExit(returncode_zero, exists) == returncode_zero

AttemptSucceeded(returncode_zero, exists) == returncode_zero /\ exists

\* _extract_thumbnail_with_ffmpeg returns ret to its call site; how tells
\* which way the attempt ended.
ExtractReturns(ret, files, how) ==
    /\ success' = ret
    /\ attempts' = Append(attempts,
          [timestamp |-> StrategyAt(tpc), ok |-> ret,
           exists |-> TempThumbnailPath \in DOMAIN files, how |-> how])
    /\ tpc' = ReturnTo(tpc)
    /\ xpc' = "none"
    /\ proc' = NoProc

\* lines 118-123: subprocess.run(["ffmpeg", "-version"], timeout=5).  A
\* missing executable raises FileNotFoundError before any process exists
\* (line 169: return False); otherwise the call blocks on the process.
StartProbe ==
    /\ tpc \in CallSites
    /\ xpc = "none"
    /\ \/ /\ ExtractReturns(FALSE, tmp, "no_ffmpeg")
          /\ UNCHANGED procs
       \/ /\ \E hung \in BOOLEAN :
                proc' = [kind |-> "probe", timeout |-> TimeoutOf("probe"), hung |-> hung]
          /\ procs' = Append(procs, TimeoutOf("probe"))
          /\ xpc' = "probe"
          /\ UNCHANGED <<tpc, success, attempts>>
    /\ UNCHANGED <<calls, video_filename, video, temp_video_path,
                   temp_thumbnail_path, exc, result, escaped, tmp, leaked,
                   synth, aborted>>
    /\ UNCHANGED <<storageVars, webVars>>

\* lines 125-127 and 166-168: the probe ends.  A process that hangs ends
\* only by its timeout.
ProbeDone ==
    /\ xpc = "probe"
    /\ proc.kind = "probe"
    /\ \/ /\ ~proc.hung              \* returncode == 0
          /\ xpc' = "run"
          /\ proc' = NoProc
          /\ UNCHANGED <<tpc, success, attempts>>
       \/ /\ ~proc.hung              \* returncode != 0: return False
          /\ ExtractReturns(FALSE, tmp, "probe_nonzero")
       \/ /\ proc.timeout > 0        \* TimeoutExpired: return False
          /\ ExtractReturns(FALSE, tmp, "probe_timeout")
    /\ UNCHANGED <<calls, video_filename, video, temp_video_path,
                   temp_thumbnail_path, exc, result, escaped, tmp, leaked,
                   procs, synth, aborted>>
    /\ UNCHANGED <<storageVars, webVars>>

\* lines 130-153: build cmd and subprocess.run(cmd, timeout=30).
StartRun ==
    /\ xpc = "run"
    /\ proc = NoProc
    /\ \E hung \in BOOLEAN :
          proc' = [kind |-> "extract", timeout |-> TimeoutOf("extract"), hung |-> hung]
    /\ procs' = Append(procs, TimeoutOf("extract"))
    /\ UNCHANGED <<tpc, calls, video_filename, video, temp_video_path,
                   temp_thumbnail_path, success, xpc, exc, result, escaped,
                   tmp, leaked, attempts, synth, aborted>>
    /\ UNCHANGED <<storageVars, webVars>>

\* lines 155-168: the extraction run ends with exit status 0, with another
\* status, or by its timeout; in each case it may or may not have written
\* the output file ("-y" overwrites).  A failing pad filter writes nothing
\* and exits non-zero.
RunDone ==
    /\ xpc = "run"
    /\ proc.kind = "extract"
    /\ \E exit \in {"zero", "nonzero", "timeout"}, wrote \in BOOLEAN :
          LET frame == FrameOf(tmp[temp_video_path])
              files == IF wrote
                       THEN WriteFile(tmp, temp_thumbnail_path, frame)
                       ELSE tmp
          IN  /\ exit = "timeout" => proc.timeout > 0
              /\ exit # "timeout" => ~proc.hung
              /\ frame.w = 0 => (exit = "nonzero" /\ ~wrote)
              /\ tmp' = files
              /\ ExtractReturns(
                    AttemptSucceeded(exit = "zero",
                                     temp_thumbnail_path \in DOMAIN files),
                    files, exit)
    /\ UNCHANGED <<calls, video_filename, video, temp_video_path,
                   temp_thumbnail_path, exc, result, escaped, leaked, procs,
                   synth, aborted>>
    /\ UNCHANGED <<storageVars, webVars>>

\* lines 58, 67, 76: the three "if not success or not ...exists()" tests.
Decide ==
    /\ tpc \in {"L58", "L67", "L76"}
    /\ tpc' = IF NeedsRetry(success, Exists(temp_thumbnail_path))
              THEN CASE tpc = "L58" -> "L60"
                     [] tpc = "L67" -> "L69"
                     [] tpc = "L76" -> "L78"
              ELSE CASE tpc = "L58" -> "L67"
                     [] tpc = "L67" -> "L76"
                     [] tpc = "L76" -> "L81"
    /\ UNCHANGED <<calls, video_filename, video, temp_video_path,
                   temp_thumbnail_path, success, xpc, proc, exc, result,
                   escaped, tmp, leaked, attempts, procs, synth, aborted>>
    /\ UNCHANGED <<storageVars, webVars>>

\* line 78: return self._create_default_thumbnail()
Default78 ==
    /\ tpc = "L78"
    /\ \E pilOk \in BOOLEAN : result' = CreateDefaultThumbnail(pilOk)
    /\ synth' = synth \cup {"L78"}
    /\ tpc' = "finally_video"
    /\ UNCHANGED <<calls, video_filename, video, temp_video_path,
                   temp_thumbnail_path, success, xpc, proc, exc, escaped, tmp,
                   leaked, attempts, procs, aborted>>
    /\ UNCHANGED <<storageVars, webVars>>

\* lines 81-84: read the thumbnail file back; open() may raise.
ReadThumbnail ==
    /\ tpc = "L81"
    /\ \/ /\ result' = ReadImage(tmp[temp_thumbnail_path])
          /\ exc' = "none"
       \/ /\ result' = NoImage
          /\ exc' = "OSError"
    /\ tpc' = "finally_video"
    /\ UNCHANGED <<calls, video_filename, video, temp_video_path,
                   temp_thumbnail_path, success, xpc, proc, escaped, tmp,
                   leaked, attempts, procs, synth, aborted>>
    /\ UNCHANGED <<storageVars, webVars>>

\* "if path and path.exists(): try: path.unlink() except Exception: log"
CleanupSkipped(path, unlinkOk) == UNCHANGED <<tmp, leaked>>

Cleanup(path, unlinkOk) ==
    IF path # NoPath /\ Exists(path)
    THEN IF unlinkOk
         THEN /\ tmp' = RemoveFile(tmp, path)
              /\ leaked' = leaked \ {path}
         ELSE /\ tmp' = tmp
              /\ leaked' = leaked \cup {path}
    ELSE UNCHANGED <<tmp, leaked>>

\* lines 88-92
FinallyVideo ==
    /\ tpc = "finally_video"
    /\ \E unlinkOk \in BOOLEAN : Cleanup(temp_video_path, unlinkOk)
    /\ tpc' = "finally_thumb"
    /\ UNCHANGED <<calls, video_filename, video, temp_video_path,
                   temp_thumbnail_path, success, xpc, proc, exc, result,
                   escaped, attempts, procs, synth, aborted>>
    /\ UNCHANGED <<storageVars, webVars>>

\* lines 94-98, then the pending return or the propagation to line 100
FinallyThumbnail ==
    /\ tpc = "finally_thumb"
    /\ \E unlinkOk \in BOOLEAN : Cleanup(temp_thumbnail_path, unlinkOk)
    /\ tpc' = IF exc = "none" THEN "done" ELSE "except"
    /\ UNCHANGED <<calls, video_filename, video, temp_video_path,
                   temp_thumbnail_path, success, xpc, proc, exc, result,
                   escaped, attempts, procs, synth, aborted>>
    /\ UNCHANGED <<storageVars, webVars>>

\* lines 100-102: except Exception: return self._create_default_thumbnail()
OuterExcept ==
    /\ tpc = "except"
    /\ IF ExceptException(exc)
       THEN /\ \E pilOk \in BOOLEAN : result' = CreateDefaultThumbnail(pilOk)
            /\ synth' = synth \cup {"L102"}
            /\ escaped' = FALSE
       ELSE /\ result' = NoImage
            /\ escaped' = TRUE
            /\ UNCHANGED synth
    /\ exc' = "none"
    /\ tpc' = "done"
    /\ UNCHANGED <<calls, video_filename, video, temp_video_path,
                   temp_thumbnail_path, success, xpc, proc, tmp, leaked,
                   attempts, procs, aborted>>
    /\ UNCHANGED <<storageVars, webVars>>

\* The client drops the connection while the call runs.  The call has no
\* suspension point at which a cancellation could be delivered, so it runs
\* on to its return.
AbortRequest ==
    /\ InCall
    /\ ~aborted
    /\ aborted' = TRUE
    /\ UNCHANGED <<tpc, calls, video_filename, video, temp_video_path,
                   temp_thumbnail_path, success, xpc, proc, exc, result,
                   escaped, tmp, leaked, attempts, procs, synth>>
    /\ UNCHANGED <<storageVars, webVars>>

\* the steps of a running call
ThumbnailStep ==
    \/ StageVideo
    \/ StartProbe
    \/ ProbeDone
    \/ StartRun
    \/ RunDone
    \/ Decide
    \/ Default78
    \/ ReadThumbnail
    \/ FinallyVideo
    \/ FinallyThumbnail
    \/ OuterExcept

ThumbnailNext ==
    \/ GenerateThumbnail
    \/ ThumbnailStep
    \/ AbortRequest

ThumbnailSpec == ThumbnailInit /\ [][ThumbnailNext]_vars

\* The event loop runs the call it has started: a step that stays enabled
\* is eventually taken.
ThumbnailFairSpec == ThumbnailSpec /\ WF_vars(ThumbnailStep)

-----------------------------------------------------------------------------
(* Properties of ThumbnailService                                          *)

AllAttemptsFailed ==
    /\ Len(attempts) = Len(Strategies)
    /\ \A i \in 1..Len(attempts) : ~(attempts[i].ok /\ attempts[i].exists)

\* C1: generate_thumbnail never fails outward: whatever staging, the tool
\* invocations and the drawing of the placeholder do, no exception leaves
\* the call and the value it returns is a JPEG image.
C1_NeverFailsOutward ==
    /\ ~escaped
    /\ tpc = "done" => result.fmt = "jpeg"

\* all three extraction attempts failed and drawing the placeholder failed
\* too: the call still returned a JPEG
C1_Witness ==
    /\ tpc = "done"
    /\ AllAttemptsFailed
    /\ "L78" \in synth
    /\ result.origin = "minimal"
    /\ result.fmt = "jpeg"

\* the strategies are attempted in the fixed order, each only after every
\* earlier one failed
ChainInOrder ==
    /\ Len(attempts) <= Len(Strategies)
    /\ \A i \in 1..Len(attempts) : attempts[i].timestamp = Strategies[i]
    /\ \A i \in 1..(Len(attempts) - 1) : ~(attempts[i].ok /\ attempts[i].exists)

\* C2 as stated: the strategies are tried in the order SeekAt(2s),
\* SeekAt(0s), NoSeek, none after the first success, and the placeholder is
\* synthesized only after all three have failed.
C2_Original ==
    /\ ChainInOrder
    /\ synth # {} => AllAttemptsFailed

\* C2 (amended): the strategies are tried in the order SeekAt(2s),
\* SeekAt(0s), NoSeek, none after the first success; the chain synthesizes
\* the placeholder (line 78) only after all three have failed, and the only
\* other synthesis is the outer exception handler's (line 102), reached when
\* staging raised before any attempt or when reading back the frame of a
\* successful attempt raised.
C2_FixedOrderFirstSuccess ==
    /\ ChainInOrder
    /\ "L78" \in synth => AllAttemptsFailed
    /\ "L102" \in synth =>
          \/ attempts = <<>>
          \/ /\ attempts[Len(attempts)].ok
             /\ attempts[Len(attempts)].exists
    /\ synth \subseteq {"L78", "L102"}
    /\ Cardinality(synth) <= 1

\* the second strategy succeeded after the first failed: the third was not
\* attempted and no placeholder was synthesized
C2_Witness ==
    /\ tpc = "done"
    /\ Len(attempts) = 2
    /\ ~attempts[1].ok
    /\ attempts[2].ok
    /\ synth = {}
    /\ result.origin = "frame"

C4_Terminates ==
    /\ [](/\ Len(attempts) <= Len(Strategies)
          /\ \A i, j \in 1..Len(attempts) :
                attempts[i].timestamp = attempts[j].timestamp => i = j
          /\ \A i \in 1..Len(procs) : procs[i] > 0
          /\ proc # NoProc => proc.timeout > 0)
    /\ (InCall ~> tpc = "done")

\* a call that ran all three attempts, each with both subprocesses, returned
C4_Witness ==
    /\ tpc = "done"
    /\ Len(attempts) = Len(Strategies)
    /\ Len(procs) = 2 * Len(Strategies)

\* C5 as stated: the returned image is 480x270 on every return path,
\* the last-resort fallback included.
C5_Original == tpc = "done" => (result.w = 480 /\ result.h = 270)

\* C5 (amended): the returned image is 480x270 when it is a frame extracted
\* by any of the three strategies or the synthesized placeholder; the
\* last-resort fallback used when placeholder synthesis fails is a 1x1 JPEG.
C5_Dimensions ==
    tpc = "done" =>
        IF result.origin = "minimal"
        THEN result.w = 1 /\ result.h = 1
        ELSE result.w = 480 /\ result.h = 270

\* a frame of a video smaller than the canvas, extracted by the third
\* strategy, was returned (letterboxed to 480x270)
C5_Witness ==
    /\ tpc = "done"
    /\ result.origin = "frame"
    /\ Len(attempts) = Len(Strategies)
    /\ video.w < 480
    /\ video.h < 270

\* C6 as stated: the timeouts of the subprocesses started in one call sum
\* to at most 3 x 30 = 90 seconds.
C6_Original == SumSeq(procs) <= 3 * 30

\* C6 (amended): each attempt starts two subprocesses, the availability
\* probe (timeout 5 s) and the extraction (timeout 30 s), so the timeouts of
\* the subprocesses started in one call sum to at most 3 x (5 + 30) = 105.
C6_TotalWaitBounded == SumSeq(procs) <= 3 * (5 + 30)

\* a call whose three attempts each ran the probe and the extraction
C6_Witness ==
    /\ tpc = "done"
    /\ Len(attempts) = Len(Strategies)
    /\ SumSeq(procs) = 3 * (5 + 30)

-----------------------------------------------------------------------------
(* Properties of the storage backends                                      *)

Stored(key) == key \in DOMAIN Objects

\* C7 as stated: an Exact-mode upload to any key K is accepted and K then
\* holds exactly its payload, on both backends, whatever was uploaded to K
\* before.
C7_Original ==
    last.op = "upload_file_with_exact_name" =>
        /\ ~last.raised
        /\ Stored(last.key)
        /\ Objects[last.key] = <<last.payload>>

\* C7 (amended): on the remote backend for every key, and on the local
\* backend for every key that is a single file name, an Exact-mode upload
\* to K is accepted whatever was uploaded to K before, and K then holds
\* exactly the payload of that upload.  (The local backend rejects a key
\* with a directory component: it never creates the directory.)
C7_ExactOverwrites ==
    (/\ last.op = "upload_file_with_exact_name"
     /\ (storage_type = "azure_blob" \/ Len(last.key) = 1))
    => /\ ~last.raised
       /\ last.url = UrlOf(last.key)
       /\ Stored(last.key)
       /\ Objects[last.key] = <<last.payload>>

\* a second Exact-mode upload to a key that held another payload (only
\* Exact-mode uploads write this key) was accepted and replaced it
C7_Witness ==
    /\ last.op = "upload_file_with_exact_name"
    /\ storage_type = "local"
    /\ last.key = <<Name(900, ".jpg")>>
    /\ last.before = <<"p1">>
    /\ last.payload = "p2"
    /\ ~last.raised
    /\ Objects[last.key] = <<"p2">>

\* C8: the URL a Unique-mode upload returns is distinct from every URL an
\* upload of the same backend returned before.
C8_UniqueUrlsDistinct ==
    (last.op = "upload_file" /\ ~last.raised) => ~last.known

\* C9: delete_file of a URL returned by a successful upload removes the
\* object and returns true while the object is stored, returns false once
\* it is gone, and never raises.
C9_DeleteThenFalse ==
    last.op = "delete_file" =>
        /\ ~last.raised
        /\ last.known =>
              IF last.before # <<>>
              THEN last.ret /\ ~Stored(last.key)
              ELSE ~last.ret

-----------------------------------------------------------------------------
(* The worker pool of AzureBlobStorage: run_in_executor(self.executor, f)  *)

\* requests that make a storage call, numbered in arrival order
MaxRequests == 5

OpKinds == {"upload_blob", "delete_blob"}

PoolInit ==
    /\ ThumbnailVarsInit
    /\ StorageVarsInit
    /\ connection_string \in {"none", "set"}
    /\ service = "importing"
    /\ blob_service_client = FALSE
    /\ executor = NoExecutor
    /\ ops = <<>>
    /\ constructions = 0
    /\ HttpVarsInit
    /\ ProxyVarsInit
    /\ DbVarsInit

\* import of app.services.storage: line 223 runs StorageService() once
ImportStorage ==
    /\ service = "importing"
    /\ LET s == StorageServiceInit(storage_type, connection_string)
       IN  /\ service' = s.service
           /\ blob_service_client' = s.client
           /\ executor' = s.executor
    /\ constructions' = constructions + 1
    /\ UNCHANGED <<connection_string, ops>>
    /\ UNCHANGED <<thumbVars, storageVars, httpVars, proxyVars, dbVars>>

\* a worker thread takes work only while fewer than max_workers are busy
HasIdleWorkerAlways(ex) == TRUE

HasIdleWorker(ex) == Cardinality(ex.running) < ex.max_workers

\* await loop.run_in_executor(self.executor, _upload_blob / _delete_blob):
\* the work item is put on the executor's queue and the request suspends
RunInExecutor ==
    /\ service = "AzureBlobStorage"
    /\ Len(ops) < MaxRequests
    /\ \E kind \in OpKinds :
          /\ ops' = Append(ops, [kind |-> kind, st |-> "queued"])
          /\ executor' = [executor EXCEPT !.queue = Append(@, Len(ops) + 1)]
    /\ UNCHANGED <<connection_string, service, blob_service_client,
                   constructions>>
    /\ UNCHANGED <<thumbVars, storageVars, httpVars, proxyVars, dbVars>>

\* an idle worker thread takes the oldest work item
WorkerStart ==
    /\ executor.queue # <<>>
    /\ HasIdleWorker(executor)
    /\ LET i == Head(executor.queue)
       IN  /\ executor' = [executor EXCEPT !.queue = Tail(@),
                                           !.running = @ \cup {i}]
           /\ ops' = [ops EXCEPT ![i].st = "running"]
    /\ UNCHANGED <<connection_string, service, blob_service_client,
                   constructions>>
    /\ UNCHANGED <<thumbVars, storageVars, httpVars, proxyVars, dbVars>>

\* the blocking SDK call returns or raises; the worker is idle again and the
\* awaiting request is resumed
WorkerFinish(i) ==
    /\ i \in executor.running
    /\ executor' = [executor EXCEPT !.running = @ \ {i}]
    /\ \E outcome \in {"returned", "raised"} :
          ops' = [ops EXCEPT ![i].st = outcome]
    /\ UNCHANGED <<connection_string, service, blob_service_client,
                   constructions>>
    /\ UNCHANGED <<thumbVars, storageVars, httpVars, proxyVars, dbVars>>

\* LocalStorage: open/copyfileobj/unlink run inline in the coroutine
LocalCall ==
    /\ service = "LocalStorage"
    /\ Len(ops) < MaxRequests
    /\ \E kind \in {"write", "unlink"}, outcome \in {"returned", "raised"} :
          ops' = Append(ops, [kind |-> kind, st |-> outcome])
    /\ UNCHANGED <<connection_string, service, blob_service_client, executor,
                   constructions>>
    /\ UNCHANGED <<thumbVars, storageVars, httpVars, proxyVars, dbVars>>

PoolStep == WorkerStart \/ \E i \in executor.running : WorkerFinish(i)

PoolNext ==
    \/ ImportStorage
    \/ RunInExecutor
    \/ LocalCall
    \/ PoolStep

PoolSpec == PoolInit /\ [][PoolNext]_vars

\* worker threads run whenever they have work, and every SDK call ends
PoolFairSpec ==
    /\ PoolSpec
    /\ WF_vars(WorkerStart)
    /\ \A i \in 1..MaxRequests : WF_vars(WorkerFinish(i))

\* C11: constructing the remote backend without a connection string fails
\* at once (ValueError) and leaves no backend, client or executor; the
\* constructor runs once, at import, and no request is ever served by a
\* process whose backend failed to construct.
C11_FailsFastAtStart ==
    /\ constructions <= 1
    /\ (service # "importing") => constructions = 1
    /\ (storage_type = "azure_blob" /\ connection_string = "none"
          /\ service # "importing")
         => /\ service = "failed"
            /\ ~blob_service_client
            /\ executor = NoExecutor
    /\ (ops # <<>>) => service \in {"LocalStorage", "AzureBlobStorage"}
    /\ (service = "AzureBlobStorage")
         => blob_service_client /\ executor.max_workers = MaxWorkers

C11_Witness ==
    /\ storage_type = "azure_blob"
    /\ connection_string = "none"
    /\ service = "failed"

\* C13: at most 4 blob uploads or deletes run at the same time, the others
\* wait in the executor's queue, and every queued call is eventually run.
C13_PoolBounded ==
    /\ [](Cardinality(executor.running) <= 4)
    /\ [](\A i \in 1..Len(ops) :
             /\ (ops[i].st = "running") <=> (i \in executor.running)
             /\ (ops[i].st = "queued")
                  <=> (\E k \in 1..Len(executor.queue) : executor.queue[k] = i))
    /\ \A i \in 1..MaxRequests :
          (i <= Len(ops) /\ ops[i].st = "queued")
             ~> (i <= Len(ops) /\ ops[i].st # "queued")

C13_Witness ==
    /\ Cardinality(executor.running) = 4
    /\ executor.queue # <<>>

-----------------------------------------------------------------------------
(* upload_video (routers/upload.py) on the asyncio event loop              *)

\* The handler is a coroutine: it runs on the event loop thread from one
\* await that suspends to the next.  A call that blocks without awaiting
\* (subprocess.run inside generate_thumbnail, file writes of LocalStorage)
\* keeps the loop thread: no other task runs until it returns.

Started == service \in {"LocalStorage", "AzureBlobStorage"}

\* thumbnail_filename = f"{video_url.split('/')[-1].rsplit('.', 1)[0]}.jpg"
ThumbnailFilename(url) == <<Name(LastSegment(url)[1].stem, ".jpg")>>

\* "except ValueError" -> 400, "except Exception" -> 500 (lines 123-129);
\* HTTPException is an Exception
UploadVideoExcept(e) == IF e = "ValueError" THEN 400 ELSE 500

\* "except Exception as e" around thumbnail generation and upload (line 98)
ThumbnailExceptNarrow(e) == e = "ValueError"

ThumbnailExcept(e) == e \in {"Exception", "OSError", "ValueError"}

\* where the handler goes after "video_url = await ...upload_video(...)":
\* lines 78-96 await the thumbnail before the record is created
AfterVideoUploadDetached == "record"

AfterVideoUpload == "thumbnail"

\* video_file.filename or "video.mp4" (line 73)
DefaultFilename == Name(500, ".mp4")

\* other names of uploaded files: a name whose extension is .jpg and a name
\* without extension
VideoFilenames == {DefaultFilename, Name(502, ".jpg"), Name(503, "")}

\* requests of the runs that upload under every name of VideoFilenames
MaxNamedUploads == 1

\* the body of the video of request r
PayloadOf(r) == IF r = 1 THEN "p1" ELSE "p2"

Respond(rq, code, why) ==
    [rq EXCEPT !.pc = "responded", !.status = code, !.cause = why]

\* lines 103-118 up to "await video_crud.create_video": UUID(actual_user_id)
\* raises ValueError for a user_id that is no UUID
ToRecord(rq) ==
    IF rq.user_id_ok
    THEN [rq EXCEPT !.pc = "db"]
    ELSE Respond(rq, UploadVideoExcept("ValueError"), "user_id")

\* the end of the inner try block (lines 93-101) with the outcome of the
\* thumbnail upload
AfterThumbnailUpload(rq, raised, url) ==
    IF ~raised
    THEN ToRecord([rq EXCEPT !.thumbnail = "stored", !.thumbnail_url = url])
    ELSE IF ThumbnailExcept("Exception")
         THEN ToRecord([rq EXCEPT !.thumbnail = "failed"])
         ELSE Respond([rq EXCEPT !.thumbnail = "failed"],
                      UploadVideoExcept("Exception"), "thumbnail")

\* lines 72-85: the video is stored; the handler goes on to
\* generate_thumbnail, whose subprocess.run calls block the loop thread
EnterThumbnail(r, rq) ==
    IF AfterVideoUpload = "thumbnail"
    THEN /\ reqs' = [reqs EXCEPT ![r] = [rq EXCEPT !.pc = "thumbnail",
                                                  !.thumbnail = "deriving"]]
         /\ loop' = r
    ELSE /\ reqs' = [reqs EXCEPT ![r] = ToRecord(rq)]
         /\ loop' = 0

\* lines 47-71: validation, reading the body, and the video upload up to its
\* first suspension, for a file named by one of filenames
ArriveAs(r, filenames) ==
    /\ Started
    /\ loop = 0
    /\ reqs[r].pc = "new"
    /\ r > 1 => reqs[r - 1].pc # "new"
    /\ \E content_type_ok \in BOOLEAN, user_id_ok \in BOOLEAN,
          io_ok \in BOOLEAN, filename \in filenames :
          LET rq == [reqs[r] EXCEPT !.content_type_ok = content_type_ok,
                                    !.user_id_ok = user_id_ok]
              key == UniqueFilename(clock, Suffix(filename))
          IN  IF ~content_type_ok
              THEN /\ reqs' = [reqs EXCEPT ![r] =
                         Respond(rq, UploadVideoExcept("HTTPException"),
                                 "content_type")]
                   /\ UNCHANGED <<loop, ops, executor, localFiles, blobs,
                                  issued>>
              ELSE IF service = "AzureBlobStorage"
              THEN /\ io_ok
                   /\ ops' = Append(ops, [kind |-> "upload_blob",
                                          st |-> "queued"])
                   /\ executor' = [executor EXCEPT
                                     !.queue = Append(@, Len(ops) + 1)]
                   /\ reqs' = [reqs EXCEPT ![r] =
                         [rq EXCEPT !.pc = "video_upload",
                                    !.video_key = key,
                                    !.op = Len(ops) + 1]]
                   /\ UNCHANGED <<loop, localFiles, blobs, issued>>
              ELSE LET w == LocalWrite(localFiles, key, PayloadOf(r))
                   IN  IF io_ok /\ ~w.raised
                       THEN /\ localFiles' = w.store
                            /\ issued' = issued \cup {LocalUrl(key)}
                            /\ EnterThumbnail(r,
                                 [rq EXCEPT !.video_key = key,
                                            !.video_url = LocalUrl(key)])
                            /\ UNCHANGED <<ops, executor, blobs>>
                       ELSE /\ reqs' = [reqs EXCEPT ![r] =
                                  Respond(rq, UploadVideoExcept("OSError"),
                                          "video_upload")]
                            /\ UNCHANGED <<loop, ops, executor, localFiles,
                                           blobs, issued>>
    /\ UNCHANGED <<storage_type, clock, last, urlWhileStored, videos,
                   connection_string, service, blob_service_client,
                   constructions>>
    /\ UNCHANGED <<thumbVars, proxyVars, dbVars>>

Arrive(r) == ArriveAs(r, {DefaultFilename})

ArriveNamed(r) == ArriveAs(r, VideoFilenames)

\* line 72: the video upload's run_in_executor has completed
VideoUploaded(r) ==
    /\ loop = 0
    /\ reqs[r].pc = "video_upload"
    /\ ops[reqs[r].op].st \in {"returned", "raised"}
    /\ LET rq == reqs[r]
           w == UploadBlob(blobs, rq.video_key, PayloadOf(r))
       IN  IF ops[rq.op].st = "raised"
           THEN /\ reqs' = [reqs EXCEPT ![r] =
                      Respond(rq, UploadVideoExcept("Exception"),
                              "video_upload")]
                /\ UNCHANGED <<loop, blobs, issued>>
           ELSE /\ blobs' = w.store
                /\ issued' = issued \cup {BlobUrl(rq.video_key)}
                /\ EnterThumbnail(r,
                     [rq EXCEPT !.video_url = BlobUrl(rq.video_key)])
    /\ UNCHANGED <<storage_type, clock, localFiles, last, urlWhileStored,
                   videos, poolVars>>
    /\ UNCHANGED <<thumbVars, proxyVars, dbVars>>

\* lines 85-96: generate_thumbnail returns its image (a frame, or the
\* placeholder when extraction failed) and the thumbnail is uploaded under
\* the video's name with the extension .jpg
ThumbnailReturns(r) ==
    /\ loop = r
    /\ reqs[r].pc = "thumbnail"
    /\ \E data \in {"frame", "placeholder"}, io_ok \in BOOLEAN :
          LET rq == [reqs[r] EXCEPT !.thumbnail_data = data,
                                    !.thumbnail = "storing"]
              key == ThumbnailFilename(rq.video_url)
          IN  IF service = "AzureBlobStorage"
              THEN /\ io_ok
                   /\ ops' = Append(ops, [kind |-> "upload_blob",
                                          st |-> "queued"])
                   /\ executor' = [executor EXCEPT
                                     !.queue = Append(@, Len(ops) + 1)]
                   /\ reqs' = [reqs EXCEPT ![r] =
                         [rq EXCEPT !.pc = "thumb_upload",
                                    !.op = Len(ops) + 1]]
                   /\ UNCHANGED <<localFiles, issued>>
              ELSE LET w == LocalWrite(localFiles, key, data)
                       raised == ~io_ok \/ w.raised
                   IN  /\ localFiles' = IF raised THEN localFiles ELSE w.store
                       /\ issued' = IF raised THEN issued
                                    ELSE issued \cup {LocalUrl(key)}
                       /\ reqs' = [reqs EXCEPT ![r] =
                             AfterThumbnailUpload(rq, raised, LocalUrl(key))]
                       /\ UNCHANGED <<ops, executor>>
    /\ loop' = 0
    /\ UNCHANGED <<storage_type, clock, blobs, last, urlWhileStored, videos,
                   connection_string, service, blob_service_client,
                   constructions>>
    /\ UNCHANGED <<thumbVars, proxyVars, dbVars>>

\* line 97 or 98: the thumbnail upload's run_in_executor has completed
ThumbnailUploaded(r) ==
    /\ loop = 0
    /\ reqs[r].pc = "thumb_upload"
    /\ ops[reqs[r].op].st \in {"returned", "raised"}
    /\ LET rq == reqs[r]
           key == ThumbnailFilename(rq.video_url)
           raised == ops[rq.op].st = "raised"
           w == UploadBlob(blobs, key, rq.thumbnail_data)
       IN  /\ blobs' = IF raised THEN blobs ELSE w.store
           /\ issued' = IF raised THEN issued ELSE issued \cup {BlobUrl(key)}
           /\ reqs' = [reqs EXCEPT ![r] =
                 AfterThumbnailUpload(rq, raised, BlobUrl(key))]
    /\ UNCHANGED <<storage_type, clock, localFiles, last, urlWhileStored,
                   videos, loop, poolVars>>
    /\ UNCHANGED <<thumbVars, proxyVars, dbVars>>

\* lines 118-121: create_video commits the record and the handler returns
\* it, or the database raises
CreateVideo(r) ==
    /\ loop = 0
    /\ reqs[r].pc = "db"
    /\ \E db_ok \in BOOLEAN :
          IF db_ok
          THEN /\ videos' = videos \cup
                     {[video_url |-> reqs[r].video_url,
                       thumbnail_url |-> reqs[r].thumbnail_url]}
               /\ reqs' = [reqs EXCEPT ![r] = Respond(@, 200, "none")]
          ELSE /\ reqs' = [reqs EXCEPT ![r] =
                     Respond(@, UploadVideoExcept("Exception"),
                             "create_video")]
               /\ UNCHANGED videos
    /\ UNCHANGED <<loop, storageVars, poolVars>>
    /\ UNCHANGED <<thumbVars, proxyVars, dbVars>>

UploadInit ==
    /\ ThumbnailVarsInit
    /\ StorageVarsInit
    /\ WebVarsStarted

UploadNext ==
    \/ \E r \in 1..MaxUploads :
          \/ Arrive(r)
          \/ VideoUploaded(r)
          \/ ThumbnailReturns(r)
          \/ ThumbnailUploaded(r)
          \/ CreateVideo(r)
    \/ PoolStep

UploadSpec == UploadInit /\ [][UploadNext]_vars

\* the same handler, for uploads under every name of VideoFilenames
NamedUploadNext ==
    \/ \E r \in 1..MaxNamedUploads :
          \/ ArriveNamed(r)
          \/ VideoUploaded(r)
          \/ ThumbnailReturns(r)
          \/ ThumbnailUploaded(r)
          \/ CreateVideo(r)
    \/ PoolStep

NamedUploadSpec == UploadInit /\ [][NamedUploadNext]_vars

VideoStored(r) == reqs[r].video_url # NoUrl

\* C12 (as stated): no blocking call runs inline on the event loop, so at
\* no time does a request hold the loop thread while it waits.
C12_NoInlineBlocking == loop = 0

C15_Original ==
    \A r \in 1..MaxUploads :
        (VideoStored(r) /\ reqs[r].pc = "responded")
           => /\ reqs[r].status = 200
              /\ \E v \in videos : v.video_url = reqs[r].video_url

ThumbnailFailed(r) ==
    reqs[r].thumbnail = "failed" \/ reqs[r].thumbnail_data = "placeholder"

\* C15: a failed thumbnail derivation (placeholder) or a failed thumbnail
\* upload is never the cause of an error response; after it, a stored video
\* gets its record (thumbnail reference empty or the placeholder's URL) and
\* status 200 unless the user id is no UUID (400) or create_video raises
\* (500).
C15_ThumbnailFailureNotSurfaced ==
    \A r \in 1..MaxUploads :
        /\ reqs[r].cause # "thumbnail"
        /\ (ThumbnailFailed(r) /\ reqs[r].pc = "responded")
             => \/ /\ reqs[r].status = 200
                   /\ [video_url |-> reqs[r].video_url,
                       thumbnail_url |-> reqs[r].thumbnail_url] \in videos
                   /\ (reqs[r].thumbnail = "failed")
                        <=> (reqs[r].thumbnail_url = NoUrl)
                \/ reqs[r].status = 400 /\ reqs[r].cause = "user_id"
                \/ reqs[r].status = 500 /\ reqs[r].cause = "create_video"

C15_Witness ==
    \E r \in 1..MaxUploads :
        /\ reqs[r].thumbnail = "failed"
        /\ reqs[r].status = 200
        /\ reqs[r].thumbnail_url = NoUrl
        /\ \E v \in videos : v.video_url = reqs[r].video_url

-----------------------------------------------------------------------------
(* Signed URLs and the proxy endpoints (routers/upload.py, main.py)        *)

\* timedelta(hours=2) of the router's endpoints, timedelta(minutes=15) of
\* main.py's get_media_url
TtlHours == 2

TtlMinutes == 15

\* the clock of the signed-URL endpoints: minutes per step, and its end
MinutesPerTick == 10

MaxNow == 20

\* SAS tokens generated in one behaviour
MaxGrants == 1

\* a SAS token a caller still holds from before the process started
EarlierToken == MaxGrants + 1

\* the tokens a caller can put into a reference; 0 is no token
CallerTokens == (0..Len(grants)) \cup {EarlierToken}

AccountHost == "account.blob.core.windows.net"

Container == "bbc-test"

\* an object that may be stored, a directory name, and the name under which
\* capture_video_frame stores its image
ObjectName == Name(900, ".jpg")

DirName == Name(901, "")

CaptureName == Name(902, ".jpg")

\* path segments of a URL other than object names: the configured
\* container's name, the name of another container, and ".."
ContainerSegment == Name(800, "")

OtherSegment == Name(801, "")

DotDot == Name(802, "")

\* what the container holds when the process starts
ProxyWorlds == {<<>>, Put(<<>>, <<ObjectName>>, <<"p1">>)}

\* A reference is the caller's string "<scheme>://<host>/<container>/<key>"
\* with an optional "?<token>"; token 0 is no query, token g > 0 is a SAS
\* token generated earlier.  scheme "" marks a bare "<key>[?<token>]".
CanonicalRef(key, query) ==
    [scheme |-> "https", host |-> AccountHost, container |-> Container,
     key |-> key, query |-> query]

BareRef(key, query) ==
    [scheme |-> "", host |-> "", container |-> "", key |-> key,
     query |-> query]

ForeignRef(container, key) ==
    [scheme |-> "https", host |-> "example.com", container |-> container,
     key |-> key, query |-> 0]

Refs ==
    {CanonicalRef(<<ObjectName>>, g) : g \in CallerTokens}
      \cup {CanonicalRef(<<DirName, ObjectName>>, 0),
            CanonicalRef(<<DotDot, OtherSegment, ObjectName>>, 0),
            ForeignRef(AccountHost, <<ObjectName>>),
            ForeignRef("c", <<ObjectName>>),
            BareRef(<<ObjectName>>, 0)}

\* an https URL of the blob storage host
Recognized(ref) == ref.scheme = "https" /\ ref.host = AccountHost

\* "not url.startswith('https://') or 'blob.core.windows.net' not in url"
\* (upload.py lines 282 and 352): the host name is looked for anywhere in
\* the string
InvalidFileUrl(ref) ==
    \/ ref.scheme # "https"
    \/ ~(ref.host = AccountHost \/ ref.container = AccountHost)

\* decoded_url.split('/')[-1].split('?')[0]      (upload.py line 292)
ProxyFilename(ref) == [key |-> <<ref.key[Len(ref.key)]>>, query |-> 0]

\* blob_url.split('/')[-1]                       (upload.py line 357)
MediaUrlFilename(ref) ==
    [key |-> <<ref.key[Len(ref.key)]>>, query |-> ref.query]

\* '/'.join(blob_url.split('/')[4:]) for an https URL, else the string
\* itself                                        (main.py lines 64-69)
MainFilename(ref) == [key |-> ref.key, query |-> ref.query]

Endpoints ==
    {"router.proxy_file", "main.proxy_file", "router.get_media_url",
     "main.get_media_url", "router.get_media_url_simple"}

ProxyEndpoints == {"router.proxy_file", "main.proxy_file"}

TTL(endpoint) ==
    IF endpoint \in {"main.proxy_file", "main.get_media_url"}
    THEN TtlMinutes
    ELSE TtlHours * 60

\* expiry=datetime.utcnow() + timedelta(...)
ExpiryAtIssuance(t, ttl) == t

Expiry(t, ttl) == t + ttl

\* generate_blob_sas(..., blob_name=filename,
\*                   permission=BlobSasPermissions(read=True), expiry=...)
GenerateBlobSas(endpoint, filename) ==
    [name |-> filename, issued_at |-> now,
     expiry |-> Expiry(now, TTL(endpoint)), permission |-> "r",
     endpoint |-> endpoint]

\* f"https://{account}.blob.core.windows.net/{container}/{filename}?{sas}":
\* the tokens the string carries, in order
TokensOf(filename, sas_token) ==
    IF filename.query = 0 THEN <<sas_token>>
    ELSE <<filename.query, sas_token>>

\* sas_url = f"https://{account}.blob.core.windows.net/{container}/{filename}
\* ?{sas_token}": host and path of the string
SasUrl(filename) ==
    [host |-> AccountHost, path |-> <<ContainerSegment>> \o filename.key]

\* session.get(sas_url): the client requests the URL with the dot segments
\* of its path removed (RFC 3986, 5.2.4)
RECURSIVE RemoveDotSegments(_, _)
RemoveDotSegments(out, in) ==
    IF in = <<>> THEN out
    ELSE IF Head(in) = DotDot
         THEN RemoveDotSegments(SubSeq(out, 1, Len(out) - 1), Tail(in))
         ELSE RemoveDotSegments(Append(out, Head(in)), Tail(in))

SessionGet(url) == [url EXCEPT !.path = RemoveDotSegments(<<>>, @)]

\* The storage account's answer to GET <name>?<tokens>: 503 while it is
\* unavailable, 403 unless the query is one valid unexpired read token for
\* the name, then 200 or 404.
AzureGet(name, tokens, grant, fault, t) ==
    IF fault = "503" THEN 503
    ELSE IF Len(tokens) # 1 \/ grant.name # name \/ grant.permission # "r"
              \/ t >= grant.expiry
         THEN 403
         ELSE IF name.key \in DOMAIN blobs THEN 200 ELSE 404

Faults == {"none", "503", "connection"}

\* "if response.status != 200: raise HTTPException(status_code=404)"
\* (upload.py line 309-310); an aiohttp exception ends in "except Exception"
\* with status 500
RouterStatus(fault, upstream) ==
    IF fault = "connection" THEN 500
    ELSE IF upstream # 200 THEN 404 ELSE 200

\* "raise HTTPException(status_code=response.status)" (main.py line 121-122)
MainStatus(fault, upstream) ==
    IF fault = "connection" THEN 500 ELSE upstream

ProxyFrame ==
    /\ UNCHANGED <<now, storageVars, poolVars, httpVars>>
    /\ UNCHANGED <<thumbVars, dbVars>>

\* an endpoint that generates a token and, for a proxy, fetches once with it
Issue(endpoint, ref, filename, fault) ==
    LET sas_token == Len(grants) + 1
        grant == GenerateBlobSas(endpoint, filename)
        tokens == TokensOf(filename, sas_token)
        fetch == endpoint \in ProxyEndpoints
        upstream == IF fetch /\ fault # "connection"
                    THEN AzureGet(filename, tokens, grant, fault, now)
                    ELSE 0
    IN  /\ Len(grants) < MaxGrants
        /\ fetch \/ fault = "none"
        /\ grants' = Append(grants, grant)
        /\ lastp' = [endpoint |-> endpoint, ref |-> ref,
                     status |-> CASE endpoint = "router.proxy_file"
                                       -> RouterStatus(fault, upstream)
                                  [] endpoint = "main.proxy_file"
                                       -> MainStatus(fault, upstream)
                                  [] OTHER -> 200,
                     issued |-> sas_token, name |-> filename,
                     tokens |-> tokens,
                     gets |-> IF fetch THEN 1 ELSE 0,
                     fetch_token |-> IF fetch THEN sas_token ELSE 0,
                     fetch_at |-> now, fault |-> fault,
                     upstream |-> upstream,
                     target |-> IF fetch THEN SessionGet(SasUrl(filename))
                                ELSE NoTarget]

\* raise HTTPException(status_code=400) before anything else is done
Reject(endpoint, ref) ==
    /\ lastp' = [NoProxyRequest EXCEPT !.endpoint = endpoint, !.ref = ref,
                                       !.status = 400]
    /\ UNCHANGED grants

\* GET /api/v1/proxy-file/{file_url:path}        (upload.py lines 270-333)
RouterProxyFile ==
    /\ \E ref \in Refs, fault \in Faults :
          IF InvalidFileUrl(ref)
          THEN fault = "none" /\ Reject("router.proxy_file", ref)
          ELSE Issue("router.proxy_file", ref, ProxyFilename(ref), fault)
    /\ ProxyFrame

\* GET /proxy-file/{file_path:path}              (main.py lines 101-140)
MainProxyFile ==
    /\ \E ref \in Refs, fault \in Faults :
          Issue("main.proxy_file", ref, MainFilename(ref), fault)
    /\ ProxyFrame

\* GET /api/v1/media-url?blob_url=               (upload.py lines 336-381)
RouterGetMediaUrl ==
    /\ \E ref \in Refs :
          IF InvalidFileUrl(ref)
          THEN Reject("router.get_media_url", ref)
          ELSE Issue("router.get_media_url", ref, MediaUrlFilename(ref),
                     "none")
    /\ ProxyFrame

\* GET /media-url?blob_url=                      (main.py lines 57-99)
MainGetMediaUrl ==
    /\ \E ref \in Refs :
          Issue("main.get_media_url", ref, MainFilename(ref), "none")
    /\ ProxyFrame

\* GET /api/v1/media-url-simple?filename=        (upload.py lines 384-418)
GetMediaUrlSimple ==
    /\ \E ref \in {r \in Refs : r.scheme = ""} :
          Issue("router.get_media_url_simple", ref, MainFilename(ref), "none")
    /\ ProxyFrame

NoGrant ==
    [name |-> NoName, issued_at |-> 0, expiry |-> 0, permission |-> "",
     endpoint |-> "none"]

\* "if response.status != 200" -> 400, file below 1 MB -> 400, ffmpeg exit
\* status or timeout -> 500, any other exception -> 500
\* (upload.py lines 453-454, 462-464, 490-492, 526-534)
CaptureStatus(fault, upstream, small, ffmpeg, upload_ok) ==
    IF fault = "connection" THEN 500
    ELSE IF upstream # 200 \/ small THEN 400
    ELSE IF ffmpeg # "ok" \/ ~upload_ok THEN 500
    ELSE 200

\* POST /api/v1/capture-video-frame              (upload.py lines 420-534):
\* the video is fetched from the caller's video_url as it is (a SAS URL the
\* caller got from a media-url endpoint, or a URL without token), a frame is
\* cut out with ffmpeg and stored under the given name.
CaptureVideoFrame ==
    /\ \E g \in CallerTokens, fault \in Faults, small \in BOOLEAN,
          ffmpeg \in {"ok", "nonzero", "timeout"}, upload_ok \in BOOLEAN :
          LET known == g \in 1..Len(grants)
              name == IF known THEN grants[g].name
                      ELSE [key |-> <<ObjectName>>, query |-> 0]
              tokens == IF g = 0 THEN <<>> ELSE TokensOf(name, g)
              grant == IF known THEN grants[g] ELSE NoGrant
              upstream == IF fault = "connection" THEN 0
                          ELSE AzureGet(name, tokens, grant, fault, now)
              status == CaptureStatus(fault, upstream, small, ffmpeg,
                                      upload_ok)
          IN  /\ (fault = "connection" \/ upstream # 200)
                   => (~small /\ ffmpeg = "ok" /\ upload_ok)
              /\ small => (ffmpeg = "ok" /\ upload_ok)
              /\ (ffmpeg # "ok") => upload_ok
              /\ lastp' = [NoProxyRequest EXCEPT
                             !.endpoint = "capture_video_frame",
                             !.ref = CanonicalRef(name.key, g),
                             !.status = status, !.name = name,
                             !.tokens = tokens, !.gets = 1,
                             !.fetch_token = g, !.fetch_at = now,
                             !.fault = fault, !.upstream = upstream]
              /\ blobs' = IF status = 200
                          THEN UploadBlob(blobs, <<CaptureName>>, "frame").store
                          ELSE blobs
              /\ issued' = IF status = 200
                           THEN issued \cup {BlobUrl(<<CaptureName>>)}
                           ELSE issued
    /\ UNCHANGED <<now, grants, storage_type, clock, localFiles, last,
                   urlWhileStored, poolVars, httpVars>>
    /\ UNCHANGED <<thumbVars, dbVars>>

\* time passes
ProxyTick ==
    /\ now < MaxNow
    /\ now' = now + MinutesPerTick
    /\ UNCHANGED <<grants, lastp, storageVars, poolVars, httpVars>>
    /\ UNCHANGED <<thumbVars, dbVars>>

ProxyInit ==
    /\ ThumbnailVarsInit
    /\ storage_type = "azure_blob"
    /\ clock = 0
    /\ localFiles = <<>>
    /\ blobs \in ProxyWorlds
    /\ issued = {}
    /\ last = NoCall
    /\ urlWhileStored = <<>>
    /\ WebVarsStarted

ProxyNext ==
    \/ RouterProxyFile
    \/ MainProxyFile
    \/ RouterGetMediaUrl
    \/ MainGetMediaUrl
    \/ GetMediaUrlSimple
    \/ CaptureVideoFrame
    \/ ProxyTick

ProxySpec == ProxyInit /\ [][ProxyNext]_vars

\* the key the reference names: what follows the container
RefName(ref) == [key |-> ref.key, query |-> 0]

\* C16 (as stated): a proxy fetch whose reference is not an https URL of the
\* blob storage host is answered with 400, issues no token and fetches
\* nothing, on every proxy endpoint.
C16_MalformedRejected ==
    (lastp.endpoint \in ProxyEndpoints /\ ~Recognized(lastp.ref))
       => (lastp.status = 400 /\ lastp.issued = 0 /\ lastp.gets = 0)

\* C17 (as stated): a proxy fetch for a well-formed reference to an object
\* that does not exist upstream, with the upstream reachable, is answered
\* with 404.
C17_MissingIs404 ==
    (/\ lastp.endpoint \in ProxyEndpoints
     /\ Recognized(lastp.ref)
     /\ lastp.ref.container = Container
     /\ lastp.ref.key \notin DOMAIN blobs
     /\ lastp.fault = "none")
       => lastp.status = 404

\* C18 (as stated): a proxy fetch whose outbound GET fails transiently
\* (connection error or upstream 5xx) is answered with 500 after one GET.
C18_TransientIs500 ==
    (lastp.endpoint \in ProxyEndpoints /\ lastp.fault # "none")
       => (lastp.status = 500 /\ lastp.gets = 1)

\* C19 (as stated): the signed URL of every issuance names the bare object
\* key and carries exactly one token, the one generated in that request.
C19_OnlyFreshToken ==
    (lastp.issued # 0)
       => (lastp.name.query = 0 /\ lastp.tokens = <<lastp.issued>>)

-----------------------------------------------------------------------------
(* delete_video (routers/upload.py) and delete_swing_section               *)
(* (routers/coach.py)                                                      *)

\* the stored objects of the video and of the section the requests delete
DeleteVideoKey == UniqueFilename(0, ".mp4")

DeleteThumbnailKey == <<Name(Timestamp(0), ".jpg")>>

DeleteImageKey == <<Name(900, ".jpg")>>

\* the section the requests delete
DeleteSectionId == 1

\* The rows and objects a delete request finds: one video, with or without
\* thumbnail, and one swing section, with or without image; the objects the
\* rows refer to are stored, or have been removed from storage already.
DeleteInit ==
    /\ ThumbnailVarsInit
    /\ storage_type \in {"local", "azure_blob"}
    /\ clock = 0
    /\ issued = {}
    /\ last = NoCall
    /\ urlWhileStored = <<>>
    /\ PoolVarsStarted
    /\ loop = 0
    /\ reqs = [r \in 1..MaxUploads |-> NoRequest]
    /\ ProxyVarsInit
    /\ section_groups = <<>>
    /\ dels = [d \in 1..MaxDeletes |-> NoDelete]
    /\ coach = [c \in 1..MaxCoach |-> NoCoach]
    /\ \E with_thumbnail \in BOOLEAN, with_image \in BOOLEAN,
          stored \in BOOLEAN :
          LET objects ==
                 IF stored
                 THEN Put(Put(Put(<<>>, DeleteVideoKey, <<"p1">>),
                              DeleteThumbnailKey, <<"frame">>),
                          DeleteImageKey, <<"p2">>)
                 ELSE <<>>
          IN  /\ localFiles = IF storage_type = "local" THEN objects ELSE <<>>
              /\ blobs = IF storage_type = "local" THEN <<>> ELSE objects
              /\ videos =
                   {[video_url |-> UrlOf(DeleteVideoKey),
                     thumbnail_url |-> IF with_thumbnail
                                       THEN UrlOf(DeleteThumbnailKey)
                                       ELSE NoUrl]}
              /\ swing_sections =
                   Put(<<>>, DeleteSectionId,
                       [image_url |-> IF with_image THEN UrlOf(DeleteImageKey)
                                      ELSE NoUrl,
                        start_sec |-> 0, end_sec |-> 1])

\* "except Exception as e: print(...)" around the storage deletes
\* (upload.py line 229, coach.py line 434)
StorageDeleteExceptNarrow(e) == e = "HTTPException"

StorageDeleteExcept(e) == e \in {"Exception", "OSError", "HTTPException"}

DeleteRespond(rq, code) == [rq EXCEPT !.pc = "responded", !.status = code]

\* where a request goes once it holds its row: to the storage deletes when
\* the row names a file, else to the record
AfterLookup(rq, urls) ==
    [rq EXCEPT !.urls = urls,
               !.pc = IF urls = <<>> THEN "record" ELSE "files"]

DeleteFrame ==
    /\ UNCHANGED <<thumbVars, poolVars, proxyVars, loop, reqs>>
    /\ UNCHANGED <<storage_type, clock, issued, last, urlWhileStored>>
    /\ UNCHANGED <<section_groups, coach>>

\* delete_video lines 217-221: get_video, 404 when there is no such row
DeleteVideoLookup(d) ==
    /\ dels[d].pc = "new"
    /\ d > 1 => dels[d - 1].pc # "new"
    /\ IF videos = {}
       THEN dels' = [dels EXCEPT ![d] =
                DeleteRespond([@ EXCEPT !.handler = "delete_video"], 404)]
       ELSE \E v \in videos :
               dels' = [dels EXCEPT ![d] =
                  AfterLookup([@ EXCEPT !.handler = "delete_video",
                                        !.video = v],
                              IF v.thumbnail_url # NoUrl
                              THEN <<v.video_url, v.thumbnail_url>>
                              ELSE <<v.video_url>>)]
    /\ UNCHANGED <<localFiles, blobs, videos, swing_sections>>
    /\ DeleteFrame

\* delete_swing_section lines 424-428: get_section, 404 when there is no
\* such row; "if section.image_url" (line 431)
DeleteSectionLookup(d) ==
    /\ dels[d].pc = "new"
    /\ d > 1 => dels[d - 1].pc # "new"
    /\ IF DeleteSectionId \notin DOMAIN swing_sections
       THEN dels' = [dels EXCEPT ![d] =
                DeleteRespond([@ EXCEPT !.handler = "delete_swing_section"],
                              404)]
       ELSE LET section == swing_sections[DeleteSectionId]
            IN  dels' = [dels EXCEPT ![d] =
                   AfterLookup([@ EXCEPT !.handler = "delete_swing_section",
                                         !.section_id = DeleteSectionId],
                               IF section.image_url # NoUrl
                               THEN <<section.image_url>> ELSE <<>>)]
    /\ UNCHANGED <<localFiles, blobs, videos, swing_sections>>
    /\ DeleteFrame

\* "await storage_service.delete_file(url)" inside the inner try
\* (upload.py lines 224-230, coach.py lines 431-435): it returns True or
\* False, or raises.  In delete_video the deletes of the video and of the
\* thumbnail share one try block: a raise skips what is left of it.
DeleteStoredFile(d) ==
    /\ dels[d].pc = "files"
    /\ \E fault \in {"none", "raise"} :
          LET rq == dels[d]
              file_url == Head(rq.urls)
              r == IF storage_type = "local"
                   THEN LocalDeleteFile(localFiles, file_url)
                   ELSE AzureDeleteFile(blobs, file_url)
              raised == fault = "raise" \/ r.raised
              outcome == IF raised THEN "raises"
                         ELSE IF r.ret THEN "true" ELSE "false"
              done == [rq EXCEPT !.outcomes = Append(@, outcome)]
          IN  /\ SetObjects(IF raised THEN Objects ELSE r.store)
              /\ dels' = [dels EXCEPT ![d] =
                    IF ~raised
                    THEN AfterLookup(done, Tail(rq.urls))
                    ELSE IF StorageDeleteExcept("Exception")
                         THEN AfterLookup(done, <<>>)
                         ELSE DeleteRespond(done, 500)]
    /\ UNCHANGED <<videos, swing_sections>>
    /\ DeleteFrame

\* video_crud.delete_video / swing_section_crud.delete_section: DELETE ...
\* WHERE id = :id, commit, "return result.rowcount > 0"; "if not success"
\* -> 404 (upload.py lines 233-237, coach.py lines 438-442); a database
\* error ends in "except Exception" with 500
DeleteRecord(d) ==
    /\ dels[d].pc = "record"
    /\ \E db_ok \in BOOLEAN :
          LET rq == [dels[d] EXCEPT !.db_called = TRUE]
              exists == IF rq.handler = "delete_video"
                        THEN rq.video \in videos
                        ELSE rq.section_id \in DOMAIN swing_sections
              rowcount == IF exists THEN 1 ELSE 0
          IN  IF ~db_ok
              THEN /\ dels' = [dels EXCEPT ![d] =
                         DeleteRespond([rq EXCEPT !.db_raised = TRUE], 500)]
                   /\ UNCHANGED <<videos, swing_sections>>
              ELSE /\ dels' = [dels EXCEPT ![d] =
                         DeleteRespond([rq EXCEPT !.rowcount = rowcount],
                                       IF rowcount > 0 THEN 200 ELSE 404)]
                   /\ IF rq.handler = "delete_video"
                      THEN /\ videos' = videos \ {rq.video}
                           /\ UNCHANGED swing_sections
                      ELSE /\ swing_sections' =
                                Drop(swing_sections, rq.section_id)
                           /\ UNCHANGED videos
    /\ UNCHANGED <<localFiles, blobs>>
    /\ DeleteFrame

DeleteNext ==
    \E d \in 1..MaxDeletes :
       \/ DeleteVideoLookup(d)
       \/ DeleteSectionLookup(d)
       \/ DeleteStoredFile(d)
       \/ DeleteRecord(d)

DeleteSpec == DeleteInit /\ [][DeleteNext]_vars

\* the request found its row
Found(rq) == rq.video # NoVideoRecord \/ rq.section_id # 0

\* C21: a delete request that found its row always goes on to delete the
\* record, whether its storage deletes returned true, returned false or
\* raised; its answer is 200 when the record existed at the database
\* delete, 404 when it was gone by then, 500 when the database raised.
C21_StorageDeleteNonFatal ==
    \A d \in 1..MaxDeletes :
       (dels[d].pc = "responded" /\ Found(dels[d]))
          => /\ dels[d].db_called
             /\ dels[d].status = IF dels[d].db_raised THEN 500
                                 ELSE IF dels[d].rowcount > 0 THEN 200
                                 ELSE 404
             /\ (dels[d].status = 200 /\ dels[d].handler = "delete_video")
                   => dels[d].video \notin videos
             /\ (dels[d].status = 200
                   /\ dels[d].handler = "delete_swing_section")
                   => dels[d].section_id \notin DOMAIN swing_sections

\* a delete_video whose storage delete raised and a delete_swing_section
\* whose storage delete returned false both reported success
C21_Witness ==
    /\ dels[1].handler = "delete_video"
    /\ dels[1].outcomes = <<"raises">>
    /\ dels[1].status = 200
    /\ dels[2].handler = "delete_swing_section"
    /\ dels[2].outcomes = <<"false">>
    /\ dels[2].status = 200

-----------------------------------------------------------------------------
(* create_section_group, add_swing_section, update_swing_section           *)
(* (routers/coach.py)                                                      *)

\* start_sec and end_sec of a request range over 0..MaxSec
MaxSec == 2

Secs == 0..MaxSec

\* a field a SwingSectionUpdate leaves out
None == -1

\* the video the coach works on
CoachVideo ==
    [video_url |-> BlobUrl(DeleteVideoKey), thumbnail_url |-> NoUrl]

CoachInit ==
    /\ ThumbnailVarsInit
    /\ StorageVarsInit
    /\ PoolVarsStarted
    /\ loop = 0
    /\ reqs = [r \in 1..MaxUploads |-> NoRequest]
    /\ videos \in {{}, {CoachVideo}}
    /\ ProxyVarsInit
    /\ DbVarsInit

CoachRespond(rq, code) == [rq EXCEPT !.pc = "responded", !.status = code]

CoachFrame ==
    /\ UNCHANGED <<thumbVars, storageVars, poolVars, httpVars, proxyVars>>
    /\ UNCHANGED dels

\* create_section_group lines 165-179: get_video_with_sections, 404 when
\* there is no such video; "if ... video.section_groups: return
\* video.section_groups[0]" on the rows as they were read
CreateSectionGroupLookup(c) ==
    /\ coach[c].pc = "new"
    /\ c > 1 => coach[c - 1].pc # "new"
    /\ LET rq == [coach[c] EXCEPT !.handler = "create_section_group"]
       IN  coach' = [coach EXCEPT ![c] =
              IF videos = {} THEN CoachRespond(rq, 404)
              ELSE IF section_groups # <<>>
                   THEN CoachRespond([rq EXCEPT !.section_group_id = 1], 200)
                   ELSE [rq EXCEPT !.pc = "create"]]
    /\ UNCHANGED <<section_groups, swing_sections>>
    /\ CoachFrame

\* lines 181-186: section_group_crud.create_section_group adds a row and
\* commits (crud.py lines 155-162)
CreateSectionGroup(c) ==
    /\ coach[c].pc = "create"
    /\ section_groups' = Append(section_groups, [video |-> CoachVideo])
    /\ coach' = [coach EXCEPT ![c] =
          CoachRespond([@ EXCEPT !.section_group_id = Len(section_groups) + 1],
                       200)]
    /\ UNCHANGED swing_sections
    /\ CoachFrame

\* add_swing_section lines 214-253 for a request without markup image and
\* without comment: 404 for an unknown group, 400 for start_sec >= end_sec,
\* else create_section adds the row
AddSwingSection(c) ==
    /\ coach[c].pc = "new"
    /\ c > 1 => coach[c - 1].pc # "new"
    /\ \E section_group_id \in 1..MaxCoach, start_sec \in Secs,
          end_sec \in Secs :
          LET rq == [coach[c] EXCEPT !.handler = "add_swing_section",
                                     !.section_group_id = section_group_id]
              section_id == Cardinality(DOMAIN swing_sections) + 1
          IN  IF section_group_id \notin 1..Len(section_groups)
              THEN /\ coach' = [coach EXCEPT ![c] = CoachRespond(rq, 404)]
                   /\ UNCHANGED swing_sections
              ELSE IF start_sec >= end_sec
              THEN /\ coach' = [coach EXCEPT ![c] = CoachRespond(rq, 400)]
                   /\ UNCHANGED swing_sections
              ELSE /\ coach' = [coach EXCEPT ![c] = CoachRespond(rq, 200)]
                   /\ swing_sections' =
                        Put(swing_sections, section_id,
                            [image_url |-> NoUrl, start_sec |-> start_sec,
                             end_sec |-> end_sec])
    /\ UNCHANGED section_groups
    /\ CoachFrame

\* update_data = {k: v for k, v in ... if v is not None}; UPDATE ... SET
\* (crud.py lines 258-271)
UpdateSection(section, start_sec, end_sec) ==
    [section EXCEPT
       !.start_sec = IF start_sec # None THEN start_sec ELSE @,
       !.end_sec = IF end_sec # None THEN end_sec ELSE @]

\* update_swing_section lines 353-365: 404 for an unknown section, else
\* update_section with the fields the request gives
UpdateSwingSection(c) ==
    /\ coach[c].pc = "new"
    /\ c > 1 => coach[c - 1].pc # "new"
    /\ \E section_id \in 1..MaxCoach, start_sec \in Secs \cup {None},
          end_sec \in Secs \cup {None} :
          LET rq == [coach[c] EXCEPT !.handler = "update_swing_section"]
          IN  IF section_id \notin DOMAIN swing_sections
              THEN /\ coach' = [coach EXCEPT ![c] = CoachRespond(rq, 404)]
                   /\ UNCHANGED swing_sections
              ELSE /\ coach' = [coach EXCEPT ![c] = CoachRespond(rq, 200)]
                   /\ swing_sections' =
                        [swing_sections EXCEPT ![section_id] =
                            UpdateSection(@, start_sec, end_sec)]
    /\ UNCHANGED section_groups
    /\ CoachFrame

CoachNext ==
    \E c \in 1..MaxCoach :
       \/ CreateSectionGroupLookup(c)
       \/ CreateSectionGroup(c)
       \/ AddSwingSection(c)
       \/ UpdateSwingSection(c)

CoachSpec == CoachInit /\ [][CoachNext]_vars

\* C29 (as stated): after any interleaving of create-section-group
\* requests for a video, at most one section group exists for it.
C29_OneGroupPerVideo == Len(section_groups) <= 1

\* C30 (as stated): every stored swing section has start_sec < end_sec.
C30_StartBeforeEnd ==
    \A section_id \in DOMAIN swing_sections :
       swing_sections[section_id].start_sec
          < swing_sections[section_id].end_sec

-----------------------------------------------------------------------------
(* Further properties of the thumbnail service                             *)

\* C22: an attempt reports success exactly when the probe found ffmpeg, the
\* extraction run exited with status 0 within its timeout and the output
\* file exists afterwards; and the chain reads the thumbnail back only after
\* an attempt that reported success while the output file exists.
C22_AttemptSuccess ==
    /\ \A i \in 1..Len(attempts) :
          attempts[i].ok <=> (attempts[i].how = "zero" /\ attempts[i].exists)
    /\ (tpc = "L81")
         => /\ attempts # <<>>
            /\ attempts[Len(attempts)].ok
            /\ attempts[Len(attempts)].exists
            /\ Exists(temp_thumbnail_path)

C22_Witness ==
    /\ tpc = "L81"
    /\ Len(attempts) = 3
    /\ attempts[1].how = "zero" /\ ~attempts[1].exists
    /\ attempts[2].how = "timeout"
    /\ attempts[3].ok

\* C25 (as stated): calls share no temp file; a call that returns an
\* extracted frame returns a frame of its own video, and a call finds no
\* temp file of an earlier call when it starts.
C25_NoSharedTempState ==
    /\ (tpc = "done" /\ result.origin = "frame") => result.call = calls
    /\ \A path \in DOMAIN tmp : InCall => tmp[path].call = calls

-----------------------------------------------------------------------------
(* Further properties of the storage service                               *)

\* C23 (as stated): delete_file of the URL an upload returned for key K,
\* while K is stored, removes the object at K and changes no other object.
C23_DeleteExactlyKey ==
    [][DeleteFile =>
         ((last'.known /\ last'.before # <<>>)
             => Objects' = Drop(Objects, last'.key))]_vars

-----------------------------------------------------------------------------
(* Further properties of upload_video                                      *)

\* C24 (as stated): a request whose declared content type is missing or
\* not video/* is answered with status 400, stores nothing and creates no
\* record.
C24_BadContentTypeIs400 ==
    \A r \in 1..MaxUploads :
       (reqs[r].pc = "responded" /\ ~reqs[r].content_type_ok)
          => /\ reqs[r].status = 400
             /\ reqs[r].video_url = NoUrl
             /\ reqs[r].thumbnail_url = NoUrl

\* C26 (as stated): the thumbnail of a request is stored under a key other
\* than the key of its video, so the stored video is not overwritten.
C26_ThumbnailKeyDiffers ==
    \A r \in 1..MaxNamedUploads :
       reqs[r].thumbnail = "stored"
          => /\ reqs[r].thumbnail_url # reqs[r].video_url
             /\ Objects[reqs[r].video_key] = <<PayloadOf(r)>>

\* an object of request r is in storage and no video record refers to it
Orphaned(r) ==
    \/ /\ reqs[r].video_url # NoUrl
       /\ reqs[r].video_key \in DOMAIN Objects
       /\ \A v \in videos : v.video_url # reqs[r].video_url
    \/ /\ reqs[r].thumbnail_url # NoUrl
       /\ ThumbnailFilename(reqs[r].video_url) \in DOMAIN Objects
       /\ \A v \in videos : v.thumbnail_url # reqs[r].thumbnail_url

\* C27 (as stated): a request answered with an error leaves no stored
\* object without a video record referring to it.
C27_FailureLeavesNoObject ==
    \A r \in 1..MaxUploads :
       (reqs[r].pc = "responded" /\ reqs[r].status # 200) => ~Orphaned(r)

-----------------------------------------------------------------------------
(* Further properties of the proxy endpoints                               *)

\* C28 (as stated): whatever the reference contains, the URL a proxy
\* endpoint fetches has the configured account's blob host and the
\* configured container.
C28_FetchTargetsConfigured ==
    (lastp.endpoint \in ProxyEndpoints /\ lastp.gets > 0)
       => /\ lastp.target.host = AccountHost
          /\ lastp.target.path # <<>>
          /\ lastp.target.path[1] = ContainerSegment

====
